---- MODULE Spec2Model ----
(***************************************************************************)
(* Model of the cache-simulator post-processing pipeline:                  *)
(*   summarize_ss_results.py   (collector)                                 *)
(*   normalize_data.py         (normalizer)                                *)
(*   normalize_and_plot_ss.py  (presenter: normalisation part)             *)
(*                                                                         *)
(* Text is a sequence of one-character strings, so that strip(), lower(),  *)
(* float(), str(int()), the ".4f" format and the regular expressions are   *)
(* computed character by character.  A float is a record                   *)
(* [k, n, d]: k = "num" is the rational n/d in lowest terms (d > 0),       *)
(* k = "nan" is NaN, k = "none" is Python's None.                          *)
(***************************************************************************)
EXTENDS Integers, Sequences, FiniteSets, TLC

\* Largest number of rows the reader yields during one scan.
MaxRows == 2

-----------------------------------------------------------------------------
(* Arithmetic on floats (exact rationals; binary rounding is not modelled) *)

Abs(x) == IF x < 0 THEN -x ELSE x

RECURSIVE Gcd(_, _)
Gcd(a, b) == IF b = 0 THEN a ELSE Gcd(b, a % b)

Rat(n, d) ==
    LET g == Gcd(Abs(n), Abs(d))
        s == IF d < 0 THEN -1 ELSE 1
    IN  [k |-> "num", n |-> (s * n) \div g, d |-> (s * d) \div g]

NaN  == [k |-> "nan",  n |-> 0, d |-> 1]
None == [k |-> "none", n |-> 0, d |-> 1]
Zero == Rat(0, 1)

IsNum(x) == x.k = "num"

\* a + b on floats; NaN is absorbing
FAdd(a, b) == IF IsNum(a) /\ IsNum(b) THEN Rat(a.n * b.d + b.n * a.d, a.d * b.d) ELSE NaN

\* a / b on floats, b a non-zero number
FDiv(a, b) == IF IsNum(a) /\ IsNum(b) THEN Rat(a.n * b.d, a.d * b.n) ELSE NaN

\* a > 0 on floats; any comparison with NaN is False
FPos(a) == IsNum(a) /\ a.n > 0

-----------------------------------------------------------------------------
(* Text *)

UpperLetters == <<"A","B","C","D","E","F","G","H","I","J","K","L","M",
                  "N","O","P","Q","R","S","T","U","V","W","X","Y","Z">>
LowerLetters == <<"a","b","c","d","e","f","g","h","i","j","k","l","m",
                  "n","o","p","q","r","s","t","u","v","w","x","y","z">>
Digits == <<"0","1","2","3","4","5","6","7","8","9">>

\* the lower-case letter of each upper-case letter
LowerOf == [c \in {UpperLetters[i] : i \in 1..26} |->
               LowerLetters[CHOOSE i \in 1..26 : UpperLetters[i] = c]]

LowerChar(c) == IF c \in DOMAIN LowerOf THEN LowerOf[c] ELSE c

\* str.lower()
Lower(s) == [i \in 1..Len(s) |-> LowerChar(s[i])]

IsSpace(c) == c \in {" ", "\t"}

RECURSIVE LStrip(_)
LStrip(s) == IF s # <<>> /\ IsSpace(Head(s)) THEN LStrip(Tail(s)) ELSE s

RECURSIVE RStrip(_)
RStrip(s) ==
    IF s # <<>> /\ IsSpace(s[Len(s)]) THEN RStrip(SubSeq(s, 1, Len(s) - 1)) ELSE s

\* str.strip()
Strip(s) == RStrip(LStrip(s))

DigitOf == [c \in {Digits[i] : i \in 1..10} |-> (CHOOSE i \in 1..10 : Digits[i] = c) - 1]

IsDigit(c) == c \in DOMAIN DigitOf
DigitVal(c) == DigitOf[c]

AllDigits(s) == \A i \in 1..Len(s) : IsDigit(s[i])

\* value of a non-empty string of decimal digits
RECURSIVE DecVal(_)
DecVal(s) == IF s = <<>> THEN 0 ELSE 10 * DecVal(SubSeq(s, 1, Len(s) - 1)) + DigitVal(s[Len(s)])

RECURSIVE Pow10(_)
Pow10(k) == IF k = 0 THEN 1 ELSE 10 * Pow10(k - 1)

\* decimal digits of a natural number
RECURSIVE NatText(_)
NatText(x) == IF x < 10 THEN <<Digits[x + 1]>> ELSE NatText(x \div 10) \o <<Digits[(x % 10) + 1]>>

\* the digits of x, left-padded with "0" to width w
RECURSIVE PadText(_, _)
PadText(x, w) == IF w = 0 THEN <<>> ELSE PadText(x \div 10, w - 1) \o <<Digits[(x % 10) + 1]>>

NanText == <<"n","a","n">>

\* Python float(s) for the literals of the inputs: surrounding white space,
\* an optional sign, digits with an optional fraction, or "nan" in any case.
\* NoneOnError: the value on ValueError.
ParseFloat(s0, onError) ==
    LET s    == Strip(s0)
        neg  == s # <<>> /\ s[1] = "-"
        sgn  == s # <<>> /\ s[1] \in {"-", "+"}
        body == IF sgn THEN Tail(s) ELSE s
        dots == {i \in 1..Len(body) : body[i] = "."}
        p    == IF dots = {} THEN Len(body) + 1 ELSE CHOOSE i \in dots : TRUE
        ip   == SubSeq(body, 1, p - 1)
        fp   == SubSeq(body, p + 1, Len(body))
        mag  == DecVal(ip \o fp)
    IN  IF Lower(body) = NanText THEN NaN
        ELSE IF Cardinality(dots) <= 1 /\ AllDigits(ip) /\ AllDigits(fp) /\ Len(ip) + Len(fp) > 0
             THEN Rat(IF neg THEN -mag ELSE mag, Pow10(Len(fp)))
             ELSE onError

-----------------------------------------------------------------------------
(* Collector: summarize_ss_results.py *)

EmptyText == <<>>

\* safe_float(val): None on empty or invalid text, else float(s)
safe_float(val) ==
    LET s == Strip(val)
    IN  IF s = EmptyText THEN None ELSE ParseFloat(s, None)

\* mutant: the fifth decimal is cut off instead of rounded
Fmt4_Truncating(x) ==
    IF ~IsNum(x) THEN NanText
    ELSE LET u == (Abs(x.n) * 10000) \div x.d
         IN  (IF x.n < 0 THEN <<"-">> ELSE <<>>)
             \o NatText(u \div 10000) \o <<".">> \o PadText(u % 10000, 4)

\* f"{x:.4f}": x rounded half-to-even to four decimals
Fmt4(x) ==
    IF ~IsNum(x) THEN NanText
    ELSE LET q == Abs(x.n) * 10000
             t == q \div x.d
             r == q % x.d
             u == IF 2 * r > x.d \/ (2 * r = x.d /\ t % 2 = 1) THEN t + 1 ELSE t
         IN  (IF x.n < 0 THEN <<"-">> ELSE <<>>)
             \o NatText(u \div 10000) \o <<".">> \o PadText(u % 10000, 4)

\* str(int(x)) for a number x: truncation toward zero
IntStr(x) ==
    LET t == Abs(x.n) \div x.d
    IN  (IF x.n < 0 /\ t > 0 THEN <<"-">> ELSE <<>>) \o NatText(t)

\* the hit-rate column of one mechanism from its stripped lookups and hits cells
HitRate(lookups, hits) ==
    LET lookup_f == safe_float(lookups)
        hits_f   == safe_float(hits)
    IN  IF lookup_f # None /\ FPos(lookup_f) /\ hits_f # None
        THEN Fmt4(FDiv(hits_f, lookup_f))
        ELSE EmptyText

\* "safe_float(x) or 0.0": None and 0.0 are falsy, NaN is truthy
OrZero(x) == IF x = None THEN Zero ELSE x

\* mutant: "and" in place of "or"
Ul2Present_Both(ul2_d, ul2_i) == ul2_d # EmptyText /\ ul2_i # EmptyText

Ul2Present(ul2_d, ul2_i) == ul2_d # EmptyText \/ ul2_i # EmptyText

Ul2Sum(ul2_d, ul2_i) == FAdd(OrZero(safe_float(ul2_d)), OrZero(safe_float(ul2_i)))

\* int() raises ValueError on NaN; nothing in the scan catches it
Ul2Raises(ul2_d, ul2_i) == Ul2Present(ul2_d, ul2_i) /\ ~IsNum(Ul2Sum(ul2_d, ul2_i))

\* the ul2_total_accesses column, when int() does not raise
Ul2Total(ul2_d, ul2_i) ==
    IF Ul2Present(ul2_d, ul2_i) THEN IntStr(Ul2Sum(ul2_d, ul2_i)) ELSE EmptyText

\* (row.get(col) or "").strip()
Field(row, col) == Strip(row[col])

HeaderLabel == <<"b","e","n","c","h","m","a","r","k">>

\* "if not bench or bench.lower() == 'benchmark': continue"
SkipsRow(row) ==
    LET bench == Field(row, "benchmark")
    IN  bench = EmptyText \/ Lower(bench) = HeaderLabel

RowRaises(row) ==
    ~SkipsRow(row) /\ Ul2Raises(Field(row, "ul2_d_accesses"), Field(row, "ul2_i_accesses"))

\* the dictionary appended to rows_out for one retained row
OutRow(config, source, row) ==
    [config             |-> config,
     benchmark          |-> Field(row, "benchmark"),
     mode               |-> Field(row, "mode"),
     il1_miss_rate      |-> Field(row, "il1_miss_rate"),
     dl1_miss_rate      |-> Field(row, "dl1_miss_rate"),
     ul2_miss_rate      |-> Field(row, "ul2_miss_rate"),
     sim_num_insn       |-> Field(row, "sim_num_insn"),
     sim_elapsed_time   |-> Field(row, "sim_elapsed_time"),
     sim_CPI            |-> Field(row, "sim_CPI"),
     vc_lookups         |-> Field(row, "vc_lookups"),
     vc_hits            |-> Field(row, "vc_hits"),
     vc_hit_rate        |-> HitRate(Field(row, "vc_lookups"), Field(row, "vc_hits")),
     mc_lookups         |-> Field(row, "mc_lookups"),
     mc_hits            |-> Field(row, "mc_hits"),
     mc_hit_rate        |-> HitRate(Field(row, "mc_lookups"), Field(row, "mc_hits")),
     sb_lookups         |-> Field(row, "sb_lookups"),
     sb_hits            |-> Field(row, "sb_hits"),
     sb_hit_rate        |-> HitRate(Field(row, "sb_lookups"), Field(row, "sb_hits")),
     sb_prefetches      |-> Field(row, "sb_prefetches"),
     ul2_d_accesses     |-> Field(row, "ul2_d_accesses"),
     ul2_i_accesses     |-> Field(row, "ul2_i_accesses"),
     ul2_total_accesses |-> Ul2Total(Field(row, "ul2_d_accesses"), Field(row, "ul2_i_accesses")),
     source_csv         |-> source]

-----------------------------------------------------------------------------
(* Parsing helpers shared by normalize_data.py and normalize_and_plot_ss.py *)

\* a missing value of a text column: None, or the NaN pandas reads for an empty cell
NA == <<"<NA>">>

\* str(x) of a cell read by pandas
StrOf(x) == IF x = NA THEN NanText ELSE x

\* _to_float(x) for a cell of the table read from the CSV
to_float(x) ==
    IF x = NA THEN NaN
    ELSE LET s == Strip(x)
         IN  IF s = EmptyText THEN NaN ELSE ParseFloat(s, NaN)

\* _to_float(x) for a float: str() and float() give the value back, NaN stays NaN
to_float_f(x) == IF IsNum(x) THEN x ELSE NaN

CharAt(s, i) == IF i \in 1..Len(s) THEN s[i] ELSE ""

\* the index after the longest run of digits of s that starts at i (\d+ is greedy)
RECURSIVE DigitsEnd(_, _)
DigitsEnd(s, i) == IF i <= Len(s) /\ IsDigit(s[i]) THEN DigitsEnd(s, i + 1) ELSE i

Dl1Name == <<"d","l","1">>
Ul2Name == <<"u","l","2">>

\* One alternative of CFG_RE, name:\d+:\d+:\d+:[lfr] with re.IGNORECASE, tried at
\* index i of s: the index after the match, or 0 when it does not match there.
GeomEnd(s, i, name) ==
    LET a == i + 3
        b == DigitsEnd(s, a + 1)
        c == DigitsEnd(s, b + 1)
        e == DigitsEnd(s, c + 1)
    IN  IF /\ i + 2 <= Len(s)
           /\ LowerChar(s[i]) = name[1]
           /\ LowerChar(s[i + 1]) = name[2]
           /\ LowerChar(s[i + 2]) = name[3]
           /\ CharAt(s, a) = ":" /\ b > a + 1
           /\ CharAt(s, b) = ":" /\ c > b + 1
           /\ CharAt(s, c) = ":" /\ e > c + 1
           /\ CharAt(s, e) = ":"
           /\ LowerChar(CharAt(s, e + 1)) \in {"l", "f", "r"}
        THEN e + 2
        ELSE 0

\* CFG_RE.finditer(s) from index i: the lower-cased matches, left to right
RECURSIVE CfgTokens(_, _)
CfgTokens(s, i) ==
    IF i > Len(s) THEN <<>>
    ELSE LET e1 == GeomEnd(s, i, Dl1Name)
             e  == IF e1 # 0 THEN e1 ELSE GeomEnd(s, i, Ul2Name)
         IN  IF e # 0
             THEN <<Lower(SubSeq(s, i, e - 1))>> \o CfgTokens(s, e)
             ELSE CfgTokens(s, i + 1)

StartsWith(s, p) == Len(s) >= Len(p) /\ SubSeq(s, 1, Len(p)) = p

\* variant: the first token of a level is kept, later ones ignored
RECURSIVE CfgLoop_FirstWins(_, _, _)
CfgLoop_FirstWins(toks, dl1, ul2) ==
    IF toks = <<>> THEN <<dl1, ul2>>
    ELSE LET token == Head(toks)
         IN  IF StartsWith(token, Dl1Name \o <<":">>)
             THEN CfgLoop_FirstWins(Tail(toks), IF dl1 = NA THEN token ELSE dl1, ul2)
             ELSE IF StartsWith(token, Ul2Name \o <<":">>)
             THEN CfgLoop_FirstWins(Tail(toks), dl1, IF ul2 = NA THEN token ELSE ul2)
             ELSE CfgLoop_FirstWins(Tail(toks), dl1, ul2)

\* the loop of parse_cache_cfg over the tokens, dl1 and ul2 its two locals
RECURSIVE CfgLoop(_, _, _)
CfgLoop(toks, dl1, ul2) ==
    IF toks = <<>> THEN <<dl1, ul2>>
    ELSE LET token == Head(toks)
         IN  IF StartsWith(token, Dl1Name \o <<":">>) THEN CfgLoop(Tail(toks), token, ul2)
             ELSE IF StartsWith(token, Ul2Name \o <<":">>) THEN CfgLoop(Tail(toks), dl1, token)
             ELSE CfgLoop(Tail(toks), dl1, ul2)

\* parse_cache_cfg(config_str): <<dl1, ul2>>, NA standing for None
parse_cache_cfg(config_str) == CfgLoop(CfgTokens(StrOf(config_str), 1), NA, NA)

\* s.split(sep)
RECURSIVE Split(_, _)
Split(s, sep) ==
    LET at == {i \in 1..Len(s) : s[i] = sep}
    IN  IF at = {} THEN <<s>>
        ELSE LET p == CHOOSE i \in at : \A j \in at : i <= j
             IN  <<SubSeq(s, 1, p - 1)>> \o Split(SubSeq(s, p + 1, Len(s)), sep)

\* int(s) succeeds on a string of digits
IsIntText(s) == s # EmptyText /\ AllDigits(s)

\* cache_bytes(cache_cfg): nsets * bsize * assoc, NaN when it cannot be read
cache_bytes(cache_cfg) ==
    IF cache_cfg = NA \/ cache_cfg = EmptyText THEN NaN
    ELSE LET parts == Split(cache_cfg, ":")
         IN  IF Len(parts) < 5 THEN NaN
             ELSE IF IsIntText(parts[2]) /\ IsIntText(parts[3]) /\ IsIntText(parts[4])
                  THEN Rat(DecVal(parts[2]) * DecVal(parts[3]) * DecVal(parts[4]), 1)
                  ELSE NaN

\* "(?:^|_)<prefix>(\d+)(?:_|$)" matches with the prefix at index p of s
KnobAt(s, p, prefix) ==
    LET a == p + Len(prefix)
        e == DigitsEnd(s, a)
    IN  /\ (p = 1 \/ s[p - 1] = "_")
        /\ a - 1 <= Len(s)
        /\ SubSeq(s, p, a - 1) = prefix
        /\ e > a
        /\ (e = Len(s) + 1 \/ s[e] = "_")

\* re.search of the knob pattern: float of the digits of the leftmost match, else NaN
Knob(s, prefix) ==
    LET ps == {p \in 1..Len(s) : KnobAt(s, p, prefix)}
    IN  IF ps = {} THEN NaN
        ELSE LET p == CHOOSE q \in ps : \A r \in ps : q <= r
                 a == p + Len(prefix)
             IN  Rat(DecVal(SubSeq(s, a, DigitsEnd(s, a) - 1)), 1)

\* parse_knobs(config_str): <<vc_entries, mc_entries, sb_depth>>
parse_knobs(config_str) ==
    LET s == Lower(StrOf(config_str))
    IN  <<Knob(s, <<"v","c">>), Knob(s, <<"m","c">>), Knob(s, <<"d">>)>>

-----------------------------------------------------------------------------
(* Normalizer: normalize_data.py, and the same steps of normalize_and_plot_ss.py *)

EXCLUDE_MODES == {<<"s","t","r","e","a","m","_","m","u","l","t","i">>}

BaselineMode == <<"b","a","s","e","l","i","n","e">>

\* the strings pandas.read_csv reads as missing, among the default na_values
NaStrings == {EmptyText, NanText, <<"N","a","N">>, <<"N","A">>}

\* one cell as pandas.read_csv delivers it
ReadCell(cell) == IF cell \in NaStrings THEN NA ELSE cell

TextCols == {"config", "benchmark", "mode", "il1_miss_rate", "dl1_miss_rate",
             "ul2_miss_rate", "sim_num_insn", "sim_elapsed_time", "sim_CPI",
             "vc_lookups", "vc_hits", "vc_hit_rate", "mc_lookups", "mc_hits",
             "mc_hit_rate", "sb_lookups", "sb_hits", "sb_hit_rate", "sb_prefetches",
             "ul2_d_accesses", "ul2_i_accesses", "ul2_total_accesses"}

\* pd.read_csv(SUMMARY_IN): every text cell read, source_csv kept as written
read_csv(table) ==
    [i \in 1..Len(table) |->
        [c \in DOMAIN table[i] |->
            IF c \in TextCols THEN ReadCell(table[i][c]) ELSE table[i][c]]]

\* mutant: the mode is trimmed but not lower-cased
StdMode_NoLower(mode) == Strip(StrOf(mode))

\* df["mode"].astype(str).str.strip().str.lower()
StdMode(mode) == Lower(Strip(StrOf(mode)))

\* df[~df["mode"].isin(EXCLUDE_MODES)]
NotExcluded(r) == r.mode \notin EXCLUDE_MODES

\* the columns main() derives for one row that is kept
DeriveRow(r) ==
    LET dl1_ul2 == parse_cache_cfg(r.config)
        knobs   == parse_knobs(r.config)
        total   == to_float(r.ul2_total_accesses)
    IN  [r EXCEPT !.dl1_miss_rate      = to_float(r.dl1_miss_rate),
                  !.ul2_miss_rate      = to_float(r.ul2_miss_rate),
                  !.sim_CPI            = to_float(r.sim_CPI),
                  !.vc_hit_rate        = to_float(r.vc_hit_rate),
                  !.mc_hit_rate        = to_float(r.mc_hit_rate),
                  !.sb_hit_rate        = to_float(r.sb_hit_rate),
                  !.ul2_total_accesses = total]
        @@ [dl1_cfg    |-> dl1_ul2[1],
            ul2_cfg    |-> dl1_ul2[2],
            dl1_bytes  |-> cache_bytes(dl1_ul2[1]),
            ul2_bytes  |-> cache_bytes(dl1_ul2[2]),
            vc_entries |-> knobs[1],
            mc_entries |-> knobs[2],
            sb_depth   |-> knobs[3],
            ul2_demand |-> total]

\* main() up to the call of normalize_against_baseline: the frame df
PrepareFrame(table) ==
    LET raw  == read_csv(table)
        std  == [i \in 1..Len(raw) |-> [raw[i] EXCEPT !.mode = StdMode(raw[i].mode)]]
        kept == SelectSeq(std, NotExcluded)
    IN  [i \in 1..Len(kept) |-> DeriveRow(kept[i])]

\* key = ["benchmark", "dl1_cfg", "ul2_cfg"]
Key(r) == <<r.benchmark, r.dl1_cfg, r.ul2_cfg>>

\* mutant: every row counts as a baseline row
BaselineRows_AnyMode(df) == 1..Len(df)

\* df[df["mode"] == "baseline"], as the indices of its rows
BaselineRows(df) == {i \in 1..Len(df) : df[i].mode = BaselineMode}

RECURSIVE SumOver(_, _, _)
SumOver(df, idx, col) ==
    IF idx = {} THEN Zero
    ELSE LET i == CHOOSE j \in idx : TRUE
         IN  FAdd(df[i][col], SumOver(df, idx \ {i}, col))

\* the "mean" aggregation of one group: NaN values are skipped, an empty rest gives NaN
GroupMean(df, idx, col) ==
    LET defined == {i \in idx : IsNum(df[i][col])}
    IN  IF defined = {} THEN NaN
        ELSE FDiv(SumOver(df, defined, col), Rat(Cardinality(defined), 1))

\* variant: no grouping, one record per baseline row
BaseTable_PerRow(df) ==
    { [benchmark       |-> df[i].benchmark,
       dl1_cfg         |-> df[i].dl1_cfg,
       ul2_cfg         |-> df[i].ul2_cfg,
       dl1_miss_base   |-> df[i].dl1_miss_rate,
       ul2_miss_base   |-> df[i].ul2_miss_rate,
       ul2_demand_base |-> df[i].ul2_demand,
       cpi_base        |-> df[i].sim_CPI]
      : i \in BaselineRows(df) }

\* groupby(key, dropna=False).agg(...).reset_index(): one record per key of a
\* baseline row, keys with missing components included
BaseTable(df) ==
    { LET idx == {i \in BaselineRows(df) : Key(df[i]) = k}
      IN  [benchmark       |-> k[1],
           dl1_cfg         |-> k[2],
           ul2_cfg         |-> k[3],
           dl1_miss_base   |-> GroupMean(df, idx, "dl1_miss_rate"),
           ul2_miss_base   |-> GroupMean(df, idx, "ul2_miss_rate"),
           ul2_demand_base |-> GroupMean(df, idx, "ul2_demand"),
           cpi_base        |-> GroupMean(df, idx, "sim_CPI")]
      : k \in {Key(df[i]) : i \in BaselineRows(df)} }

BaseCols(b) ==
    [dl1_miss_base   |-> b.dl1_miss_base,
     ul2_miss_base   |-> b.ul2_miss_base,
     ul2_demand_base |-> b.ul2_demand_base,
     cpi_base        |-> b.cpi_base]

NoBase == [dl1_miss_base |-> NaN, ul2_miss_base |-> NaN, ul2_demand_base |-> NaN, cpi_base |-> NaN]

RECURSIVE SetToSeq(_)
SetToSeq(S) == IF S = {} THEN <<>> ELSE LET x == CHOOSE y \in S : TRUE IN <<x>> \o SetToSeq(S \ {x})

\* mutant: an inner join, the rows without a match dropped
MergeRow_Inner(r, base) ==
    LET ms == {b \in base : <<b.benchmark, b.dl1_cfg, b.ul2_cfg>> = Key(r)}
        m  == SetToSeq(ms)
    IN  [j \in 1..Len(m) |-> r @@ BaseCols(m[j])]

\* the rows a left merge makes of one row of df: one per record of base with the
\* row's key (missing key components match each other), else one without a match
MergeRow(r, base) ==
    LET ms == {b \in base : <<b.benchmark, b.dl1_cfg, b.ul2_cfg>> = Key(r)}
    IN  IF ms = {} THEN <<r @@ NoBase>>
        ELSE LET m == SetToSeq(ms) IN [j \in 1..Len(m) |-> r @@ BaseCols(m[j])]

\* df.merge(base, on=key, how="left"): the rows of df in their order
RECURSIVE Merge(_, _)
Merge(df, base) == IF df = <<>> THEN <<>> ELSE MergeRow(Head(df), base) \o Merge(Tail(df), base)

\* mutant: a zero denominator gives 0 instead of NaN
safe_div_ZeroForZero(a0, b0) ==
    LET a == to_float_f(a0)
        b == to_float_f(b0)
    IN  IF ~IsNum(a) \/ ~IsNum(b) THEN NaN ELSE IF b.n = 0 THEN Zero ELSE FDiv(a, b)

safe_div(a0, b0) ==
    LET a == to_float_f(a0)
        b == to_float_f(b0)
    IN  IF ~IsNum(a) \/ ~IsNum(b) \/ b.n = 0 THEN NaN ELSE FDiv(a, b)

\* mutant: the baseline mean divided by the metric
NormCols_Inverted(r) ==
    [dl1_miss_norm   |-> safe_div(r.dl1_miss_base, r.dl1_miss_rate),
     ul2_miss_norm   |-> safe_div(r.ul2_miss_base, r.ul2_miss_rate),
     ul2_demand_norm |-> safe_div(r.ul2_demand_base, r.ul2_demand),
     cpi_norm        |-> safe_div(r.cpi_base, r.sim_CPI)]

NormCols(r) ==
    [dl1_miss_norm   |-> safe_div(r.dl1_miss_rate, r.dl1_miss_base),
     ul2_miss_norm   |-> safe_div(r.ul2_miss_rate, r.ul2_miss_base),
     ul2_demand_norm |-> safe_div(r.ul2_demand, r.ul2_demand_base),
     cpi_norm        |-> safe_div(r.sim_CPI, r.cpi_base)]

normalize_against_baseline(df) ==
    LET out == Merge(df, BaseTable(df))
    IN  [i \in 1..Len(out) |-> out[i] @@ NormCols(out[i])]

\* norm["has_baseline_for_cachepoint"] = ~norm["dl1_miss_base"].isna()
HasBaseline(r) == IsNum(r.dl1_miss_base)

\* the table normalize_data.py writes to OUT_NORMALIZED
NormalizedTable(table) ==
    LET n == normalize_against_baseline(PrepareFrame(table))
    IN  [i \in 1..Len(n) |-> n[i] @@ [has_baseline_for_cachepoint |-> HasBaseline(n[i])]]

\* int((~norm["has_baseline_for_cachepoint"]).sum())
BaseMissing(n) == Cardinality({i \in 1..Len(n) : ~n[i].has_baseline_for_cachepoint})

\* the table normalize_and_plot_ss.py writes to OUT_NORMALIZED and plots from
PlotTable(table) == normalize_against_baseline(PrepareFrame(table))

-----------------------------------------------------------------------------
(* Presenter: reference filtering and line charts of normalize_and_plot_ss.py *)

REF_VC       == 4
REF_MC       == 4
REF_SB_DEPTH == 4

Victim       == <<"v","i","c","t","i","m">>
Miss         == <<"m","i","s","s">>
Stream       == <<"s","t","r","e","a","m">>
VictimStream == Victim \o <<"_">> \o Stream
MissStream   == Miss \o <<"_">> \o Stream

MODE_ORDER == <<BaselineMode, Victim, Miss, Stream, VictimStream, MissStream>>

\* variant: the comparison is true for a knob the tag does not carry
KnobIs_OrMissing(x, ref) == ~IsNum(x) \/ x = Rat(ref, 1)

\* g[col] == REF: a float column compared with an int, NaN equal to nothing
KnobIs(x, ref) == IsNum(x) /\ x = Rat(ref, 1)

ModeIs(r, mode) == r.mode = mode

\* variant: the first row of the mode's slice is lost on every call
filter_ref_knobs_for_mode_DropFirst(df, mode) ==
    LET g == SelectSeq(df, LAMBDA r : r.mode = mode)
    IN  IF g = <<>> THEN g ELSE Tail(g)

filter_ref_knobs_for_mode(df, mode) ==
    LET g == SelectSeq(df, LAMBDA r : ModeIs(r, mode))
    IN  IF mode = BaselineMode THEN g
        ELSE IF mode = Victim
             THEN SelectSeq(g, LAMBDA r : KnobIs(r.vc_entries, REF_VC))
        ELSE IF mode = Miss
             THEN SelectSeq(g, LAMBDA r : KnobIs(r.mc_entries, REF_MC))
        ELSE IF mode = Stream
             THEN SelectSeq(g, LAMBDA r : KnobIs(r.sb_depth, REF_SB_DEPTH))
        ELSE IF mode = VictimStream
             THEN SelectSeq(g, LAMBDA r : KnobIs(r.vc_entries, REF_VC)
                                          /\ KnobIs(r.sb_depth, REF_SB_DEPTH))
        ELSE IF mode = MissStream
             THEN SelectSeq(g, LAMBDA r : KnobIs(r.mc_entries, REF_MC)
                                          /\ KnobIs(r.sb_depth, REF_SB_DEPTH))
        ELSE g

\* the characters of the model in code point order, as sorted() compares them
CodeOrder ==
    <<" ", "-", ".", "0", "1", "2", "3", "4", "5", "6", "7", "8", "9", ":", "<", ">",
      "A", "B", "C", "D", "E", "F", "G", "H", "I", "J", "K", "L", "M", "N", "O", "P", "Q",
      "R", "S", "T", "U", "V", "W", "X", "Y", "Z", "_",
      "a", "b", "c", "d", "e", "f", "g", "h", "i", "j", "k", "l", "m", "n", "o", "p", "q",
      "r", "s", "t", "u", "v", "w", "x", "y", "z">>

CodeOf == [c \in {CodeOrder[i] : i \in DOMAIN CodeOrder} |->
              CHOOSE i \in DOMAIN CodeOrder : CodeOrder[i] = c]

\* a < b for two strings
RECURSIVE TextLess(_, _)
TextLess(a, b) ==
    IF b = <<>> THEN FALSE
    ELSE IF a = <<>> THEN TRUE
    ELSE IF a[1] = b[1] THEN TextLess(Tail(a), Tail(b))
    ELSE CodeOf[a[1]] < CodeOf[b[1]]

\* sorted(S) for a set of strings
RECURSIVE SortedTexts(_)
SortedTexts(S) ==
    IF S = {} THEN <<>>
    ELSE LET m == CHOOSE x \in S : \A y \in S \ {x} : TextLess(x, y)
         IN  <<m>> \o SortedTexts(S \ {m})

RECURSIVE ConcatParts(_, _)
ConcatParts(df, modes) ==
    IF modes = <<>> THEN <<>>
    ELSE filter_ref_knobs_for_mode(df, Head(modes)) \o ConcatParts(df, Tail(modes))

\* the parts of the modes in sorted order, concatenated; an empty table stays empty
filter_ref_knobs_all_modes(df) ==
    ConcatParts(df, SortedTexts({df[i].mode : i \in 1..Len(df)}))

REF_DL1 == <<"d","l","1",":","1","0","2","4",":","3","2",":","1",":","l">>
REF_UL2 == <<"u","l","2",":","1","6","3","8","4",":","6","4",":","4",":","l">>

\* the elements of a list
Elems(seq) == {seq[i] : i \in 1..Len(seq)}

\* agg_for_lines(df, xcol, ycol): the rows that define x and y, one point per
\* (mode, x) with the mean of y
agg_for_lines(df, xcol, ycol) ==
    LET g == SelectSeq(df, LAMBDA r : IsNum(r[xcol]) /\ IsNum(r[ycol]))
    IN  { [mode |-> k[1], x |-> k[2],
           y    |-> GroupMean(g, {i \in 1..Len(g) : g[i].mode = k[1] /\ g[i][xcol] = k[2]},
                              ycol)]
          : k \in {<<g[i].mode, g[i][xcol]>> : i \in 1..Len(g)} }

\* lineplot_by_mode: no file when nothing is left to plot, else one file with a
\* series for each mode of mode_order that has points
lineplot_by_mode(df, xcol, ycol, outpath, mode_order) ==
    LET g == agg_for_lines(df, xcol, ycol)
    IN  IF g = {} THEN {}
        ELSE {[path |-> outpath, points |-> {pt \in g : pt.mode \in Elems(mode_order)}]}

\* barplot_mechanism: no file when no row defines y, else one bar per mode of
\* mode_order present and benchmark, the mean of y or NaN without a row
barplot_mechanism(df, ycol, outpath, mode_order) ==
    LET g       == SelectSeq(df, LAMBDA r : IsNum(r[ycol]))
        benches == {g[i].benchmark : i \in 1..Len(g)}
        modes   == {g[i].mode : i \in 1..Len(g)} \cap Elems(mode_order)
    IN  IF g = <<>> THEN {}
        ELSE {[path   |-> outpath,
               points |-> { [mode |-> m, x |-> b,
                             y    |-> GroupMean(g, {i \in 1..Len(g) : g[i].benchmark = b
                                                                     /\ g[i].mode = m}, ycol)]
                            : m \in modes, b \in benches }]}

\* cfg.replace(':', '-') in a file name; a missing benchmark prints as nan
Dashed(cfg) == [i \in 1..Len(cfg) |-> IF cfg[i] = ":" THEN "-" ELSE cfg[i]]

OutPath(family, bench, cfg) == [family |-> family, bench |-> StrOf(bench), cfg |-> Dashed(cfg)]

\* variant: the sweep charts are drawn from the unfiltered group
SweepSlice_Unfiltered(g) == g

\* g2 = filter_ref_knobs_all_modes(g)
SweepSlice(g) == filter_ref_knobs_all_modes(g)

\* charts (1) and (7): for each (benchmark, ul2_cfg) group with a level-2 config,
\* a line chart of ycol against the level-1 size, drawn from the filtered group
SweepCharts(norm, family, ycol) ==
    UNION { LET g  == SelectSeq(norm, LAMBDA r : r.benchmark = k[1] /\ r.ul2_cfg = k[2])
                g2 == SweepSlice(g)
            IN  lineplot_by_mode(g2, "dl1_bytes", ycol, OutPath(family, k[1], k[2]),
                                 MODE_ORDER)
            : k \in {<<norm[i].benchmark, norm[i].ul2_cfg>> :
                        i \in {j \in 1..Len(norm) : norm[j].ul2_cfg # NA}} }

\* norm[(norm["dl1_cfg"] == REF_DL1) & (norm["ul2_cfg"] == REF_UL2)]
RefPoint(norm) == SelectSeq(norm, LAMBDA r : r.dl1_cfg = REF_DL1 /\ r.ul2_cfg = REF_UL2)

\* charts (2) and (8): bars at the reference cache point and reference knobs
BarCharts(norm, family, ycol) ==
    barplot_mechanism(filter_ref_knobs_all_modes(RefPoint(norm)), ycol,
                      [family |-> family, bench |-> <<>>, cfg |-> <<>>], MODE_ORDER)

\* charts (3), (4) and (5): from the rows sel selected at the reference cache
\* point, one line chart per benchmark (groupby drops a missing benchmark)
KnobCharts(sel, family, xcol, ycol, modes) ==
    UNION { lineplot_by_mode(SelectSeq(sel, LAMBDA r : r.benchmark = b), xcol, ycol,
                             OutPath(family, b, <<>>), modes)
            : b \in {sel[i].benchmark : i \in 1..Len(sel)} \ {NA} }

KeepVc(r) == r.mode = Victim \/ (r.mode = VictimStream /\ KnobIs(r.sb_depth, REF_SB_DEPTH))

KeepMc(r) == r.mode = Miss \/ (r.mode = MissStream /\ KnobIs(r.sb_depth, REF_SB_DEPTH))

KeepSb(r) ==
    \/ r.mode = Stream
    \/ r.mode = VictimStream /\ KnobIs(r.vc_entries, REF_VC)
    \/ r.mode = MissStream /\ KnobIs(r.mc_entries, REF_MC)

\* chart (6): baseline rows only, averaged per (benchmark, dl1_cfg, ul2_bytes) with
\* missing keys dropped, one raw and one normalized chart per (benchmark, dl1_cfg)
BaselineCharts(norm) ==
    LET b == SelectSeq(norm, LAMBDA r : /\ r.mode = BaselineMode
                                        /\ IsNum(r.ul2_bytes)
                                        /\ r.benchmark # NA
                                        /\ r.dl1_cfg # NA)
        Points(k, ycol) ==
            { [mode |-> BaselineMode, x |-> x,
               y    |-> GroupMean(b, {i \in 1..Len(b) : /\ b[i].benchmark = k[1]
                                                        /\ b[i].dl1_cfg = k[2]
                                                        /\ b[i].ul2_bytes = x}, ycol)]
              : x \in {b[i].ul2_bytes :
                          i \in {j \in 1..Len(b) : b[j].benchmark = k[1] /\ b[j].dl1_cfg = k[2]}} }
    IN  UNION { {[path   |-> OutPath("6_ul2_size_vs_ul2_miss/baseline_only_raw", k[1], k[2]),
                  points |-> Points(k, "ul2_miss_rate")],
                 [path   |-> OutPath("6_ul2_size_vs_ul2_miss/baseline_only_norm", k[1], k[2]),
                  points |-> Points(k, "ul2_miss_norm")]}
                : k \in {<<b[i].benchmark, b[i].dl1_cfg>> : i \in 1..Len(b)} }

\* every chart file main() saves from the normalized table
Charts(norm) ==
    SweepCharts(norm, "1_cache_size_vs_miss/dl1_size_vs_dl1_miss_raw", "dl1_miss_rate")
    \cup SweepCharts(norm, "1_cache_size_vs_miss/dl1_size_vs_dl1_miss_norm", "dl1_miss_norm")
    \cup BarCharts(norm, "2_mechanism_vs_miss_bars", "dl1_miss_norm")
    \cup KnobCharts(SelectSeq(RefPoint(norm), KeepVc), "3_vc_entries_vs_vc_hitrate",
                    "vc_entries", "vc_hit_rate",
                    <<Victim, VictimStream>>)
    \cup KnobCharts(SelectSeq(RefPoint(norm), KeepMc), "4_mc_entries_vs_mc_hitrate",
                    "mc_entries", "mc_hit_rate",
                    <<Miss, MissStream>>)
    \cup KnobCharts(SelectSeq(RefPoint(norm), KeepSb), "5_sb_depth_vs_sb_hitrate",
                    "sb_depth", "sb_hit_rate",
                    <<Stream, VictimStream, MissStream>>)
    \cup BaselineCharts(norm)
    \cup SweepCharts(norm, "7_ul2_demand_vs_dl1", "ul2_demand_norm")
    \cup BarCharts(norm, "8_cpi_vs_mechanism_bars", "cpi_norm")

\* OUT_DIR and PLOTS_DIR
AnalysisDir == "results/ss/analysis"
PlotsDir    == "results/ss/analysis/plots"

-----------------------------------------------------------------------------
(* Inputs: the rows the csv reader can yield, drawn from small sets *)

Gcc == <<"g","c","c">>
Mcf == <<"m","c","f">>

T_0    == <<"0">>
T_1    == <<"1">>
T_2    == <<"2">>
T_3    == <<"3">>
T_4    == <<"4">>
T_neg1 == <<"-","1">>
T_2p5  == <<"2",".","5">>
T_0p10 == <<"0",".","1","0">>
T_0p08 == <<"0",".","0","8">>
T_0p5  == <<"0",".","5">>
T_0p25 == <<"0",".","2","5">>
T_bad  == <<"a","b","c">>

Dl1Token == <<"d","l","1",":","1","6",":","3","2",":","1",":","l">>
Ul2Token == <<"u","l","2",":","6","4",":","6","4",":","4",":","l">>
KnobPart == <<"v","c","4">>
Sep      == <<"_","_">>

\* directory names under results/ss: a full tag, one without a level-1 token,
\* one without a level-2 token
TagFull  == KnobPart \o Sep \o Dl1Token \o Sep \o Ul2Token
TagNoDl1 == KnobPart \o Sep \o Ul2Token
TagNoUl2 == KnobPart \o Sep \o Dl1Token

\* a full tag of a run with a victim cache that is not of the reference size
TagVc8 == <<"v","c","8">> \o Sep \o Dl1Token \o Sep \o Ul2Token

\* a row of a result file with every counter cell empty
BlankRow ==
    [benchmark |-> Gcc, mode |-> BaselineMode,
     il1_miss_rate |-> EmptyText, dl1_miss_rate |-> EmptyText, ul2_miss_rate |-> EmptyText,
     sim_num_insn |-> EmptyText, sim_elapsed_time |-> EmptyText, sim_CPI |-> EmptyText,
     vc_lookups |-> EmptyText, vc_hits |-> EmptyText,
     mc_lookups |-> EmptyText, mc_hits |-> EmptyText,
     sb_lookups |-> EmptyText, sb_hits |-> EmptyText, sb_prefetches |-> EmptyText,
     ul2_d_accesses |-> EmptyText, ul2_i_accesses |-> EmptyText]

\* <<dl1_miss_rate, ul2_miss_rate, sim_CPI, ul2_d_accesses, ul2_i_accesses>>
ProfileA == <<T_0p10,    T_0p5,  T_2,   T_4,       EmptyText>>
ProfileB == <<T_0p08,    T_0p25, T_1,   T_1,       T_1>>
ProfileC == <<EmptyText, T_0p5,  T_bad, EmptyText, EmptyText>>
ProfileD == <<T_0,       T_0,    T_0,   T_0,       EmptyText>>
Profiles == {ProfileA, ProfileB, ProfileC, ProfileD}

MetricRow(bench, mode, p) ==
    [BlankRow EXCEPT !.benchmark = bench, !.mode = mode,
                     !.dl1_miss_rate = p[1], !.ul2_miss_rate = p[2], !.sim_CPI = p[3],
                     !.ul2_d_accesses = p[4], !.ul2_i_accesses = p[5]]

Input(config, row) == [config |-> config, source |-> <<config, "ss_results.csv">>, row |-> row]

\* rows the reader skips: an empty benchmark cell, a repeated header line
SkipInputs ==
    {Input(TagFull, [BlankRow EXCEPT !.benchmark = b]) :
        b \in {EmptyText, <<" ","B","e","n","c","h","m","a","r","k">>}}

\* a row whose level-2 access count is the text "nan"
NanInputs == {Input(TagFull, [BlankRow EXCEPT !.ul2_d_accesses = NanText])}

SpacedBaseline == <<" ","B","a","s","e","l","i","n","e">>
MixedExcluded  == <<"S","t","r","e","a","m","_","M","u","l","t","i">>

\* the rows of the runs whose metrics, modes and tags vary
PipelineInputs ==
    {Input(TagFull, MetricRow(Gcc, m, p)) : m \in {BaselineMode, Victim}, p \in Profiles}
    \cup {Input(TagFull, MetricRow(Gcc, m, p)) :
            m \in {SpacedBaseline, MixedExcluded}, p \in {ProfileA, ProfileB}}
    \cup {Input(t, MetricRow(b, BaselineMode, ProfileA)) :
            t \in {TagNoDl1, TagNoUl2}, b \in {Gcc}}
    \cup {Input(t, MetricRow(b, Victim, ProfileB)) :
            t \in {TagNoDl1, TagNoUl2}, b \in {Gcc}}
    \cup {Input(TagFull, MetricRow(Mcf, BaselineMode, ProfileA)),
          Input(TagFull, MetricRow(Mcf, Victim, ProfileB))}
    \cup {Input(TagVc8, MetricRow(Gcc, Victim, ProfileB))}
    \cup SkipInputs \cup NanInputs

LookupTexts == {EmptyText, T_bad, T_0, T_neg1, T_3, NanText}
HitTexts    == {EmptyText, T_bad, T_1, T_2, NanText}
AccessTexts == {EmptyText, T_bad, T_3, T_2p5, NanText}

VictimRow == MetricRow(Gcc, Victim, ProfileA)

\* the rows of the runs whose mechanism and level-2 access counters vary
CounterInputs ==
    {Input(TagFull, [VictimRow EXCEPT !.vc_lookups = l, !.vc_hits = h]) :
        l \in LookupTexts, h \in HitTexts}
    \cup {Input(TagFull, [VictimRow EXCEPT !.mc_lookups = l, !.mc_hits = h]) :
            l \in {T_0, T_3}, h \in {EmptyText, T_2}}
    \cup {Input(TagFull, [VictimRow EXCEPT !.sb_lookups = l, !.sb_hits = h]) :
            l \in {T_0, T_3}, h \in {EmptyText, T_2}}
    \cup {Input(TagFull, [VictimRow EXCEPT !.ul2_d_accesses = d, !.ul2_i_accesses = i]) :
            d \in AccessTexts, i \in AccessTexts}
    \cup SkipInputs

\* a mode outside MODE_ORDER: what astype(str) makes of a missing mode cell
OtherMode == NanText

FilterModes == {BaselineMode, Victim, Miss, Stream, VictimStream, MissStream, OtherMode}

Four  == Rat(4, 1)
Eight == Rat(8, 1)

\* <<vc_entries, mc_entries, sb_depth>> of a row
KnobProfiles == {<<Four, Four, Four>>, <<Eight, Four, Four>>, <<Four, Eight, Four>>,
                 <<Four, Four, Eight>>, <<NaN, NaN, NaN>>}

FilterRow(mode, k) ==
    [benchmark |-> Gcc, mode |-> mode,
     vc_entries |-> k[1], mc_entries |-> k[2], sb_depth |-> k[3]]

FilterRows == {FilterRow(m, k) : m \in FilterModes, k \in KnobProfiles}

\* the tables of at most MaxRows rows
RECURSIVE TablesUpTo(_, _)
TablesUpTo(rows, n) ==
    IF n = 0 THEN {<<>>}
    ELSE LET shorter == TablesUpTo(rows, n - 1)
         IN  shorter \cup {Append(t, r) : t \in {u \in shorter : Len(u) = n - 1}, r \in rows}

FilterTables == TablesUpTo(FilterRows, MaxRows)

\* the parts a configuration tag is put together from: geometry tokens of both
\* levels in lower and upper case, a knob, and a level-1 token cut short
MaxTokens == 3

Dl1Upper == <<"D","L","1",":","8",":","3","2",":","2",":","F">>
Ul2Upper == <<"U","L","2",":","3","2",":","6","4",":","2",":","R">>
Dl1Short == <<"d","l","1",":","1","6",":">>

Dl1Parts == {Dl1Token, Dl1Upper}
Ul2Parts == {Ul2Token, Ul2Upper}
TagParts == Dl1Parts \cup Ul2Parts \cup {KnobPart, Dl1Short}

RECURSIVE JoinParts(_)
JoinParts(parts) ==
    IF parts = <<>> THEN <<>>
    ELSE IF Len(parts) = 1 THEN parts[1]
    ELSE parts[1] \o Sep \o JoinParts(Tail(parts))

\* the tags of at most MaxTokens parts
TagInputs == {[parts |-> ps, tag |-> JoinParts(ps)] : ps \in TablesUpTo(TagParts, MaxTokens)}

-----------------------------------------------------------------------------
(* The pipeline as a state machine *)

VARIABLES
    pc,           \* the collector: "scan", "aborted" (uncaught exception), "written"
    nread,        \* rows the csv readers have yielded so far
    rows_out,     \* the collector's list rows_out
    summary,      \* the content of ss_summary_all.csv once written
    norm_done,    \* normalize_data.py has run
    norm,         \* the table normalize_data.py wrote
    base_missing, \* the count normalize_data.py printed
    plot_done,    \* normalize_and_plot_ss.py has run
    plot_norm,    \* the table normalize_and_plot_ss.py wrote and plots from
    charts,       \* the chart files normalize_and_plot_ss.py saved
    dirs,         \* the directories the two scripts created
    fatal,        \* the scripts that ended in SystemExit
    fn_in,        \* the argument of a helper function called on its own
    fn_out        \* what the helper returned

vars == <<pc, nread, rows_out, summary, norm_done, norm, base_missing, plot_done, plot_norm,
          charts, dirs, fatal, fn_in, fn_out>>

\* no helper has been called on its own
Idle == [fn |-> "idle"]

Init ==
    /\ pc = "scan"
    /\ nread = 0
    /\ rows_out = <<>>
    /\ summary = <<>>
    /\ norm_done = FALSE
    /\ norm = <<>>
    /\ base_missing = 0
    /\ plot_done = FALSE
    /\ plot_norm = <<>>
    /\ charts = {}
    /\ dirs = {}
    /\ fatal = {}
    /\ fn_in = <<>>
    /\ fn_out = Idle

\* one pass of the loop "for row in reader" that reaches rows_out.append
CollectRow(inp) ==
    /\ pc = "scan"
    /\ nread < MaxRows
    /\ ~SkipsRow(inp.row)
    /\ ~RowRaises(inp.row)
    /\ rows_out' = Append(rows_out, OutRow(inp.config, inp.source, inp.row))
    /\ nread' = nread + 1
    /\ UNCHANGED <<pc, summary, norm_done, norm, base_missing, plot_done, plot_norm,
                 charts, dirs, fatal, fn_in, fn_out>>

\* one pass that ends at "continue"
SkipRow(inp) ==
    /\ pc = "scan"
    /\ nread < MaxRows
    /\ SkipsRow(inp.row)
    /\ nread' = nread + 1
    /\ UNCHANGED <<pc, rows_out, summary, norm_done, norm, base_missing, plot_done, plot_norm,
                 charts, dirs, fatal, fn_in, fn_out>>

\* one pass in which int() raises: the exception ends main()
AbortRow(inp) ==
    /\ pc = "scan"
    /\ nread < MaxRows
    /\ RowRaises(inp.row)
    /\ pc' = "aborted"
    /\ nread' = nread + 1
    /\ UNCHANGED <<rows_out, summary, norm_done, norm, base_missing, plot_done, plot_norm,
                 charts, dirs, fatal, fn_in, fn_out>>

\* the readers are exhausted: the combined CSV is written
WriteSummary ==
    /\ pc = "scan"
    /\ summary' = rows_out
    /\ pc' = "written"
    /\ UNCHANGED <<nread, rows_out, norm_done, norm, base_missing, plot_done, plot_norm,
                 charts, dirs, fatal, fn_in, fn_out>>

\* each script is run once: it wrote its table or ended in SystemExit
NormalizerRan == norm_done \/ "normalize_data" \in fatal

PresenterRan == plot_done \/ "normalize_and_plot_ss" \in fatal

\* main() of normalize_data.py with the combined table missing: SystemExit before
\* anything is created
NormalizerMissing ==
    /\ pc # "written"
    /\ ~NormalizerRan
    /\ fatal' = fatal \cup {"normalize_data"}
    /\ UNCHANGED <<pc, nread, rows_out, summary, norm_done, norm, base_missing, plot_done,
                 plot_norm, charts, dirs, fn_in, fn_out>>

\* main() of normalize_data.py on the written summary
NormalizerMain ==
    /\ pc = "written"
    /\ ~NormalizerRan
    /\ dirs' = dirs \cup {AnalysisDir}
    /\ norm' = NormalizedTable(summary)
    /\ base_missing' = BaseMissing(norm')
    /\ norm_done' = TRUE
    /\ UNCHANGED <<pc, nread, rows_out, summary, plot_done, plot_norm,
                 charts, fatal, fn_in, fn_out>>

\* main() of normalize_and_plot_ss.py with the combined table missing: ensure_dirs()
\* has run when SystemExit is raised
PresenterMissing ==
    /\ pc # "written"
    /\ NormalizerRan
    /\ ~PresenterRan
    /\ dirs' = dirs \cup {AnalysisDir, PlotsDir}
    /\ fatal' = fatal \cup {"normalize_and_plot_ss"}
    /\ UNCHANGED <<pc, nread, rows_out, summary, norm_done, norm, base_missing, plot_done,
                 plot_norm, charts, fn_in, fn_out>>

\* main() of normalize_and_plot_ss.py on the written summary
PresenterMain ==
    /\ pc = "written"
    /\ NormalizerRan
    /\ ~PresenterRan
    /\ dirs' = dirs \cup {AnalysisDir, PlotsDir}
    /\ plot_norm' = PlotTable(summary)
    /\ charts' = Charts(plot_norm')
    /\ plot_done' = TRUE
    /\ UNCHANGED <<pc, nread, rows_out, summary, norm_done, norm, base_missing,
                 fatal, fn_in, fn_out>>

Next ==
    \/ \E inp \in PipelineInputs : CollectRow(inp)
    \/ \E inp \in PipelineInputs : SkipRow(inp)
    \/ \E inp \in PipelineInputs : AbortRow(inp)
    \/ WriteSummary
    \/ NormalizerMissing
    \/ NormalizerMain
    \/ PresenterMissing
    \/ PresenterMain

Spec == Init /\ [][Next]_vars

\* the collector alone, on the rows whose counters vary
NextCollector ==
    \/ \E inp \in CounterInputs : CollectRow(inp)
    \/ \E inp \in CounterInputs : SkipRow(inp)
    \/ \E inp \in CounterInputs : AbortRow(inp)
    \/ WriteSummary

SpecCollector == Init /\ [][NextCollector]_vars

-----------------------------------------------------------------------------
(* The reference filters called on their own *)

PipelineIdle ==
    /\ pc = "scan"
    /\ nread = 0
    /\ rows_out = <<>>
    /\ summary = <<>>
    /\ norm_done = FALSE
    /\ norm = <<>>
    /\ base_missing = 0
    /\ plot_done = FALSE
    /\ plot_norm = <<>>
    /\ charts = {}
    /\ dirs = {}
    /\ fatal = {}

pipeline == <<pc, nread, rows_out, summary, norm_done, norm, base_missing, plot_done,
              plot_norm, charts, dirs, fatal>>

InitFilter ==
    /\ PipelineIdle
    /\ fn_in \in FilterTables
    /\ fn_out = Idle

\* filter_ref_knobs_for_mode(df, mode), and the same call on its result
FilterForMode(mode) ==
    /\ fn_out = Idle
    /\ LET once == filter_ref_knobs_for_mode(fn_in, mode)
       IN  fn_out' = [fn    |-> "filter_ref_knobs_for_mode",
                      mode  |-> mode,
                      once  |-> once,
                      twice |-> filter_ref_knobs_for_mode(once, mode)]
    /\ UNCHANGED <<pipeline, fn_in>>

\* filter_ref_knobs_all_modes(df), and the same call on its result
FilterAllModes ==
    /\ fn_out.fn = "idle"
    /\ LET once == filter_ref_knobs_all_modes(fn_in)
       IN  fn_out' = [fn    |-> "filter_ref_knobs_all_modes",
                      mode  |-> <<>>,
                      once  |-> once,
                      twice |-> filter_ref_knobs_all_modes(once)]
    /\ UNCHANGED <<pipeline, fn_in>>

NextFilter ==
    \/ \E mode \in FilterModes : FilterForMode(mode)
    \/ FilterAllModes

SpecFilter == InitFilter /\ [][NextFilter]_vars

-----------------------------------------------------------------------------
(* parse_cache_cfg called on its own *)

InitParse ==
    /\ PipelineIdle
    /\ fn_in \in TagInputs
    /\ fn_out = Idle

ParseCacheCfg ==
    /\ fn_out = Idle
    /\ LET t == parse_cache_cfg(fn_in.tag)
       IN  fn_out' = [fn |-> "parse_cache_cfg", dl1 |-> t[1], ul2 |-> t[2]]
    /\ UNCHANGED <<pipeline, fn_in>>

NextParse == ParseCacheCfg

SpecParse == InitParse /\ [][NextParse]_vars

-----------------------------------------------------------------------------
(* Properties of the normalized tables *)

SameKey(a, b) ==
    a.benchmark = b.benchmark /\ a.dl1_cfg = b.dl1_cfg /\ a.ul2_cfg = b.ul2_cfg

IsBaselineRow(r) == r.mode = BaselineMode

\* <<metric, baseline mean, normalized ratio>> columns
Metrics == {<<"dl1_miss_rate", "dl1_miss_base", "dl1_miss_norm">>,
            <<"ul2_miss_rate", "ul2_miss_base", "ul2_miss_norm">>,
            <<"ul2_demand",    "ul2_demand_base", "ul2_demand_norm">>,
            <<"sim_CPI",       "cpi_base",      "cpi_norm">>}

\* the baseline-mode rows of t at the key of r
BaselineAt(t, r) == {j \in 1..Len(t) : IsBaselineRow(t[j]) /\ SameKey(t[j], r)}

\* the sum of column col over the rows 1..n of t that are in S
RECURSIVE SumTo(_, _, _, _)
SumTo(t, S, n, col) ==
    IF n = 0 THEN Zero
    ELSE FAdd(IF n \in S THEN t[n][col] ELSE Zero, SumTo(t, S, n - 1, col))

\* m is the arithmetic mean of column col over the rows S of t that define it
IsMeanOver(m, t, S, col) ==
    LET D   == {j \in S : IsNum(t[j][col])}
        sum == SumTo(t, D, Len(t), col)
    IN  IF D = {} THEN m = NaN
        ELSE IsNum(m) /\ m.n * Cardinality(D) * sum.d = sum.n * m.d

RemoveAt(t, i) == SubSeq(t, 1, i - 1) \o SubSeq(t, i + 1, Len(t))

\* non-baseline rows at the keys of t, with the metrics of a row of t or with others
OtherRows(t) ==
    {[t[i] EXCEPT !.mode = Victim] : i \in 1..Len(t)}
    \cup {[t[i] EXCEPT !.mode = Victim, !.dl1_miss_rate = Rat(3, 4), !.ul2_miss_rate = NaN,
                       !.ul2_demand = Rat(9, 1), !.sim_CPI = Rat(5, 1)] : i \in 1..Len(t)}

BaselineMeansIn(t) ==
    /\ \A i \in 1..Len(t) : BaselineAt(t, t[i]) # {} =>
           \A m \in Metrics : IsMeanOver(t[i][m[2]], t, BaselineAt(t, t[i]), m[1])
    /\ \A x \in OtherRows(t) : BaseTable(Append(t, x)) = BaseTable(t)
    /\ \A i \in 1..Len(t) : ~IsBaselineRow(t[i]) =>
           /\ BaseTable(RemoveAt(t, i)) = BaseTable(t)
           /\ \A x \in OtherRows(t) : BaseTable([t EXCEPT ![i] = x]) = BaseTable(t)

\* C1: at every key with a baseline-mode row, each of the four baseline columns is
\* the arithmetic mean of its metric over the baseline-mode rows at that key (over
\* those that define the metric), and adding, removing or changing a non-baseline
\* row at any key leaves the baseline means unchanged.
C1_BaselineMean ==
    /\ norm_done => BaselineMeansIn(norm)
    /\ plot_done => BaselineMeansIn(plot_norm)

\* a baseline row and a non-baseline row share a key, their level-1 miss rates
\* differ, and the baseline column of both is the baseline row's rate
C1_Witness ==
    /\ norm_done
    /\ \E i, j \in 1..Len(norm) :
          /\ IsBaselineRow(norm[i]) /\ ~IsBaselineRow(norm[j]) /\ SameKey(norm[i], norm[j])
          /\ IsNum(norm[i].dl1_miss_rate) /\ IsNum(norm[j].dl1_miss_rate)
          /\ norm[i].dl1_miss_rate # norm[j].dl1_miss_rate
          /\ norm[j].dl1_miss_base = norm[i].dl1_miss_rate

\* q is a / b by the safe-division rule
IsSafeQuotient(q, a, b) ==
    IF ~IsNum(a) \/ ~IsNum(b) \/ b.n = 0 THEN q = NaN
    ELSE IsNum(q) /\ q.n * b.n * a.d = a.n * b.d * q.d

SafeDivIn(t) ==
    \A i \in 1..Len(t) : \A m \in Metrics : IsSafeQuotient(t[i][m[3]], t[i][m[1]], t[i][m[2]])

\* C2: each of the four normalized columns is NaN exactly when its metric is NaN,
\* its baseline mean is NaN or its baseline mean is 0, and is otherwise exactly
\* metric / baseline mean.
C2_SafeDiv ==
    /\ norm_done => SafeDivIn(norm)
    /\ plot_done => SafeDivIn(plot_norm)

\* one row is divided by a zero baseline mean, another by a non-zero one
C2_Witness ==
    /\ norm_done
    /\ \E i, j \in 1..Len(norm) :
          /\ IsNum(norm[i].dl1_miss_rate) /\ norm[i].dl1_miss_base = Zero
          /\ norm[i].dl1_miss_norm = NaN
          /\ IsNum(norm[j].dl1_miss_base) /\ norm[j].dl1_miss_base # Zero
          /\ IsNum(norm[j].dl1_miss_norm)

One == Rat(1, 1)

SingleBaselineIn(t) ==
    \A i, j \in 1..Len(t) :
        LET v == t[j].dl1_miss_rate
            w == t[i].dl1_miss_rate
            q == t[i].dl1_miss_norm
        IN  (BaselineAt(t, t[i]) = {j} /\ IsNum(v) /\ v.n # 0) =>
                /\ t[j].dl1_miss_norm = One
                /\ IsNum(w) => (IsNum(q) /\ q.n * v.n * w.d = w.n * v.d * q.d)

\* C3: where exactly one baseline row exists at a key and its level-1 miss rate v is
\* defined and non-zero, the baseline row's dl1_miss_norm is 1 and every row at the
\* key with a defined rate w has dl1_miss_norm = w / v.
C3_SingleBaseline ==
    /\ norm_done => SingleBaselineIn(norm)
    /\ plot_done => SingleBaselineIn(plot_norm)

\* baseline 0.10 and victim 0.08 at one key: 1 for the baseline row, 0.8 for the other
C3_Witness ==
    /\ norm_done
    /\ \E i, j \in 1..Len(norm) :
          /\ BaselineAt(norm, norm[i]) = {j}
          /\ norm[j].dl1_miss_rate = Rat(10, 100) /\ norm[j].dl1_miss_norm = One
          /\ norm[i].dl1_miss_rate = Rat(8, 100) /\ norm[i].dl1_miss_norm = Rat(8, 10)

\* the rows of the written summary whose standardized mode is not excluded
KeptSummary(table) ==
    SelectSeq(table, LAMBDA r : StdMode(ReadCell(r.mode)) \notin EXCLUDE_MODES)

AllNormsUndefined(r) == \A m \in Metrics : r[m[3]] = NaN

AllBasesUndefined(r) == \A m \in Metrics : r[m[2]] = NaN

\* the rows of t are the kept rows of the summary, one each, in their order
RowsRetained(t, table) ==
    LET kept == KeptSummary(table)
    IN  /\ Len(t) = Len(kept)
        /\ \A i \in 1..Len(t) :
              /\ t[i].config = ReadCell(kept[i].config)
              /\ t[i].benchmark = ReadCell(kept[i].benchmark)
              /\ t[i].source_csv = kept[i].source_csv

\* C4: a row whose key no baseline-mode row has gets four undefined normalized
\* columns and has_baseline_for_cachepoint = FALSE, and stays in the table: the
\* table has one row for each kept row of the summary.
C4_NoBaselineRowKept ==
    /\ norm_done =>
          /\ RowsRetained(norm, summary)
          /\ \A i \in 1..Len(norm) : BaselineAt(norm, norm[i]) = {} =>
                 AllNormsUndefined(norm[i]) /\ ~norm[i].has_baseline_for_cachepoint
    /\ plot_done =>
          /\ RowsRetained(plot_norm, summary)
          /\ \A i \in 1..Len(plot_norm) : BaselineAt(plot_norm, plot_norm[i]) = {} =>
                 AllNormsUndefined(plot_norm[i])

\* a victim row with defined metrics and no baseline row at its key is in the table
C4_Witness ==
    /\ norm_done
    /\ \E i \in 1..Len(norm) :
          /\ norm[i].mode = Victim /\ BaselineAt(norm, norm[i]) = {}
          /\ IsNum(norm[i].dl1_miss_rate) /\ IsNum(norm[i].sim_CPI)
          /\ AllNormsUndefined(norm[i]) /\ ~norm[i].has_baseline_for_cachepoint

\* C5: has_baseline_for_cachepoint is TRUE exactly for the rows whose key some
\* baseline-mode row has, whatever that row's metrics are, and the printed count is
\* the number of rows whose key no baseline-mode row has.
C5_FlagIsBaselineExists ==
    norm_done =>
        /\ \A i \in 1..Len(norm) :
              norm[i].has_baseline_for_cachepoint = (BaselineAt(norm, norm[i]) # {})
        /\ base_missing = Cardinality({i \in 1..Len(norm) : BaselineAt(norm, norm[i]) = {}})

HasToken(config, name) == \E i \in 1..Len(config) : GeomEnd(config, i, name) # 0

\* some row of t has a parsed config in column col
SomeParsed(t, col) == \E j \in 1..Len(t) : t[j][col] # NA

\* C6: a row whose tag has no level-1 (level-2) geometry token has an undefined
\* parsed config and capacity for that level, undefined baseline means and
\* undefined normalized columns, whatever other rows lack the token too, and it
\* stays in the table.  The baseline part is stated for the tables in which some
\* other row has a parsed config for that level, so that the key column of the
\* merge holds text.
C6_MissingTokenUndefined ==
    norm_done =>
        /\ RowsRetained(norm, summary)
        /\ \A i \in 1..Len(norm) :
              /\ ~HasToken(norm[i].config, Dl1Name) =>
                    /\ norm[i].dl1_cfg = NA /\ norm[i].dl1_bytes = NaN
                    /\ SomeParsed(norm, "dl1_cfg") =>
                          AllBasesUndefined(norm[i]) /\ AllNormsUndefined(norm[i])
              /\ ~HasToken(norm[i].config, Ul2Name) =>
                    /\ norm[i].ul2_cfg = NA /\ norm[i].ul2_bytes = NaN
                    /\ SomeParsed(norm, "ul2_cfg") =>
                          AllBasesUndefined(norm[i]) /\ AllNormsUndefined(norm[i])

\* no row of t has a mode that is excluded once trimmed and lower-cased
NoExcludedIn(t) ==
    \A i \in 1..Len(t) : Lower(Strip(StrOf(ReadCell(t[i].mode)))) \notin EXCLUDE_MODES

\* C7 as stated: no table the pipeline writes holds a row of an excluded mode.
C7_NoExcludedAnywhere ==
    /\ pc = "written" => NoExcludedIn(summary)
    /\ norm_done => NoExcludedIn(norm)
    /\ plot_done => NoExcludedIn(plot_norm)

MeansFromTable(t) ==
    \A i \in 1..Len(t) : \A m \in Metrics :
        IsMeanOver(t[i][m[2]], t, BaselineAt(t, t[i]), m[1])

\* C7 amended: neither normalized table (the second is the one every chart is
\* drawn from) holds a row of an excluded mode, and every baseline mean is a mean
\* over rows of that table.
C7_NoExcludedNormalized ==
    /\ norm_done => NoExcludedIn(norm) /\ MeansFromTable(norm)
    /\ plot_done => NoExcludedIn(plot_norm) /\ MeansFromTable(plot_norm)

\* the summary holds a row of an excluded mode and both normalized tables lack it
C7_Witness ==
    /\ norm_done /\ plot_done
    /\ ~NoExcludedIn(summary)
    /\ Len(norm) < Len(summary) /\ Len(plot_norm) < Len(summary)

-----------------------------------------------------------------------------
(* Properties of the collector's rows *)

\* <<lookups, hits, hit rate>> columns of the three mechanisms
Mechanisms == {<<"vc_lookups", "vc_hits", "vc_hit_rate">>,
               <<"mc_lookups", "mc_hits", "mc_hit_rate">>,
               <<"sb_lookups", "sb_hits", "sb_hit_rate">>}

\* the number a cell holds; NaN for an empty cell, malformed text or the text "nan"
CellNum(c) == ParseFloat(c, NaN)

\* text with digits, a point and exactly four digits
IsDec4(txt) ==
    LET parts == Split(txt, ".")
    IN  /\ Len(parts) = 2
        /\ parts[1] # EmptyText /\ AllDigits(parts[1])
        /\ Len(parts[2]) = 4 /\ AllDigits(parts[2])

\* txt is the four-decimal text nearest to h / l
IsRatioTo4(txt, h, l) ==
    LET y == CellNum(txt)
    IN  /\ IsNum(h) /\ IsDec4(txt)
        /\ 20000 * Abs(y.n * h.d * l.n - h.n * l.d * y.d) <= y.d * h.d * l.n

\* C8 as stated: the hit rate is empty when lookups is undefined or <= 0 and is
\* hits/lookups to four decimals in every other case.
C8_HitRateElseRatio ==
    \A i \in 1..Len(rows_out) : \A m \in Mechanisms :
        LET l == CellNum(rows_out[i][m[1]])
            h == CellNum(rows_out[i][m[2]])
        IN  IF ~IsNum(l) \/ l.n <= 0
            THEN rows_out[i][m[3]] = EmptyText
            ELSE IsRatioTo4(rows_out[i][m[3]], h, l)

\* the cell is empty or is text float() rejects
Unreadable(c) == ParseFloat(c, None) = None

\* C8 amended: the hit rate is empty when lookups is undefined or <= 0 and also
\* when hits is empty or unreadable; otherwise it is hits/lookups to four decimals
\* (the text "nan" when the hits cell reads as NaN).
C8_HitRate ==
    \A i \in 1..Len(rows_out) : \A m \in Mechanisms :
        LET l  == CellNum(rows_out[i][m[1]])
            h  == CellNum(rows_out[i][m[2]])
            hr == rows_out[i][m[3]]
        IN  IF ~IsNum(l) \/ l.n <= 0 \/ Unreadable(rows_out[i][m[2]])
            THEN hr = EmptyText
            ELSE IF ~IsNum(h) THEN hr = NanText
            ELSE IsRatioTo4(hr, h, l)

\* 2 hits in 3 lookups give "0.6667"; 3 lookups and no hits cell give the empty text
C8_Witness ==
    \E i, j \in 1..Len(rows_out) :
        /\ rows_out[i].vc_lookups = T_3 /\ rows_out[i].vc_hits = T_2
        /\ rows_out[i].vc_hit_rate = <<"0",".","6","6","6","7">>
        /\ rows_out[j].vc_lookups = T_3 /\ rows_out[j].vc_hits = EmptyText
        /\ rows_out[j].vc_hit_rate = EmptyText

BothAbsent(r) == r.ul2_d_accesses = EmptyText /\ r.ul2_i_accesses = EmptyText

\* the number of an access cell, an absent one counted as 0
AbsentAsZero(c) == IF c = EmptyText THEN Zero ELSE CellNum(c)

UnreadableAsZero(c) == IF Unreadable(c) THEN Zero ELSE CellNum(c)

\* txt is the integer text of x truncated toward zero
IsTruncOf(txt, x) ==
    LET neg == txt # EmptyText /\ txt[1] = "-"
        mag == IF neg THEN Tail(txt) ELSE txt
    IN  /\ IsNum(x) /\ IsIntText(mag)
        /\ DecVal(mag) * x.d <= Abs(x.n) /\ Abs(x.n) < (DecVal(mag) + 1) * x.d
        /\ neg => x.n < 0

C10_ScanNeverAborts == pc # "aborted"

-----------------------------------------------------------------------------
(* Properties of the reference filters *)

\* the rule the specification's table gives a row of each mode
RefRule(r) ==
    CASE r.mode = Victim       -> r.vc_entries = Four
      [] r.mode = Miss         -> r.mc_entries = Four
      [] r.mode = Stream       -> r.sb_depth = Four
      [] r.mode = VictimStream -> r.vc_entries = Four /\ r.sb_depth = Four
      [] r.mode = MissStream   -> r.mc_entries = Four /\ r.sb_depth = Four
      [] OTHER                 -> TRUE

Count(t, x) == Cardinality({i \in 1..Len(t) : t[i] = x})

SameRows(t, u) ==
    /\ Len(t) = Len(u)
    /\ \A i \in 1..Len(t) : Count(t, t[i]) = Count(u, t[i])

\* C11: filter_ref_knobs_for_mode returns exactly the rows of the table that have
\* the mode asked for and satisfy that mode's reference rule (a mode outside the
\* table of rules passes unfiltered), in their order and with their fields as they
\* were; filter_ref_knobs_all_modes returns the rows that satisfy the rule of their
\* own mode.
C11_FilterRule ==
    fn_out.fn # "idle" =>
        IF fn_out.fn = "filter_ref_knobs_for_mode"
        THEN fn_out.once = SelectSeq(fn_in, LAMBDA r : r.mode = fn_out.mode /\ RefRule(r))
        ELSE SameRows(fn_out.once, SelectSeq(fn_in, RefRule))

\* a combined-mode slice of two rows, one at the reference knobs and one not
C11_Witness ==
    /\ fn_out.fn # "idle"
    /\ fn_out.fn = "filter_ref_knobs_for_mode"
    /\ fn_out.mode = VictimStream
    /\ Len(fn_in) = 2
    /\ \A i \in 1..2 : fn_in[i].mode = VictimStream
    /\ Len(fn_out.once) = 1

\* C12: both reference filters are idempotent: applied to their own result they
\* return that result again.
C12_Idempotent == fn_out.fn # "idle" => fn_out.twice = fn_out.once

\* the filter for all modes removed a row and kept one
C12_Witness ==
    /\ fn_out.fn # "idle"
    /\ fn_out.fn = "filter_ref_knobs_all_modes"
    /\ Len(fn_out.once) = 1
    /\ Len(fn_in) = 2
    /\ fn_out.twice = fn_out.once

-----------------------------------------------------------------------------
(* Properties of parse_cache_cfg *)

\* the lower-cased last part of the tag that is a token of the level, None without one
LastOf(parts, level) ==
    LET at == {i \in 1..Len(parts) : parts[i] \in level}
    IN  IF at = {} THEN NA
        ELSE Lower(parts[CHOOSE i \in at : \A j \in at : j <= i])

\* C15: parse_cache_cfg gives, for each level on its own, the lower-cased last
\* geometry token of that level in the tag, matched without regard to case; a
\* token of the other level, a knob or a token cut short changes nothing.
C15_LastMatchWins ==
    fn_out.fn = "parse_cache_cfg" =>
        /\ fn_out.dl1 = LastOf(fn_in.parts, Dl1Parts)
        /\ fn_out.ul2 = LastOf(fn_in.parts, Ul2Parts)

\* two different level-1 tokens around a level-2 token: the second level-1 token wins
C15_Witness ==
    /\ fn_out.fn = "parse_cache_cfg"
    /\ fn_in.parts = <<Dl1Token, Ul2Upper, Dl1Upper>>
    /\ fn_out.dl1 = Lower(Dl1Upper)
    /\ fn_out.ul2 = Lower(Ul2Upper)

-----------------------------------------------------------------------------
(* Properties of a run without the combined table *)

\* C13: a script that ends in SystemExit because the combined table is missing has
\* created nothing: no normalized table, no chart file, no directory. (When the
\* presenter finds the table missing the normalizer found it missing before, so
\* no directory is the work of another run.)
C13_NoOutputWhenInputMissing ==
    /\ "normalize_data" \in fatal =>
          norm = <<>> /\ (~PresenterRan => dirs = {})
    /\ "normalize_and_plot_ss" \in fatal =>
          plot_norm = <<>> /\ charts = {} /\ dirs = {}

-----------------------------------------------------------------------------
(* Properties of the sweep line charts *)

\* <<directory, plotted column>> of the line charts over the level-1 size
SweepFamilies ==
    {<<"1_cache_size_vs_miss/dl1_size_vs_dl1_miss_raw", "dl1_miss_rate">>,
     <<"1_cache_size_vs_miss/dl1_size_vs_dl1_miss_norm", "dl1_miss_norm">>,
     <<"7_ul2_demand_vs_dl1", "ul2_demand_norm">>}

\* row r of the table belongs to the chart at path
InChart(r, path) ==
    /\ r.ul2_cfg # NA
    /\ StrOf(r.benchmark) = path.bench
    /\ Dashed(r.ul2_cfg) = path.cfg

\* the rows of t behind a point at (mode, x) of the chart at path: of that mode and
\* x, passing the reference rule of the mode, with x and y defined
RowsBehind(t, path, ycol, mode, x) ==
    {i \in 1..Len(t) : /\ InChart(t[i], path)
                       /\ t[i].mode = mode
                       /\ IsNum(t[i].dl1_bytes) /\ t[i].dl1_bytes = x
                       /\ IsNum(t[i][ycol])
                       /\ RefRule(t[i])}

\* C14: in every sweep line chart each (mode, x) has at most one point, its y is
\* the mean of the plotted column over exactly the rows of that mode and x that
\* pass the reference filter and define x and y, and every such row of a mode of
\* MODE_ORDER is behind a point; rows that fail the filter are averaged into
\* nothing.
C14_AggregatedAfterFilter ==
    plot_done =>
        \A f \in SweepFamilies :
            /\ \A ch \in {c \in charts : c.path.family = f[1]} :
                  \A pt \in ch.points :
                      /\ \A q \in ch.points : q.mode = pt.mode /\ q.x = pt.x => q = pt
                      /\ RowsBehind(plot_norm, ch.path, f[2], pt.mode, pt.x) # {}
                      /\ IsMeanOver(pt.y, plot_norm,
                                    RowsBehind(plot_norm, ch.path, f[2], pt.mode, pt.x), f[2])
            /\ \A i \in 1..Len(plot_norm) :
                  LET r == plot_norm[i]
                  IN  /\ r.ul2_cfg # NA
                      /\ r.mode \in Elems(MODE_ORDER)
                      /\ IsNum(r.dl1_bytes) /\ IsNum(r[f[2]])
                      /\ RefRule(r)
                      => \E ch \in charts :
                            /\ ch.path.family = f[1]
                            /\ InChart(r, ch.path)
                            /\ \E pt \in ch.points : pt.mode = r.mode /\ pt.x = r.dl1_bytes

\* two victim rows of one benchmark and cache point with different miss rates, one
\* at the reference victim-cache size and one not: the point is the first row's rate
C14_Witness ==
    /\ plot_done
    /\ \E ch \in charts : \E pt \in ch.points : \E i, j \in 1..Len(plot_norm) :
          /\ ch.path.family = "1_cache_size_vs_miss/dl1_size_vs_dl1_miss_raw"
          /\ pt.mode = Victim
          /\ InChart(plot_norm[i], ch.path) /\ InChart(plot_norm[j], ch.path)
          /\ plot_norm[i].mode = Victim /\ plot_norm[j].mode = Victim
          /\ plot_norm[i].dl1_bytes = pt.x /\ plot_norm[j].dl1_bytes = pt.x
          /\ RefRule(plot_norm[i]) /\ ~RefRule(plot_norm[j])
          /\ IsNum(plot_norm[j].dl1_miss_rate)
          /\ plot_norm[i].dl1_miss_rate # plot_norm[j].dl1_miss_rate
          /\ pt.y = plot_norm[i].dl1_miss_rate

-----------------------------------------------------------------------------
(* Properties of the join *)

\* the columns main() converts with _to_float
NumCols == {"dl1_miss_rate", "ul2_miss_rate", "sim_CPI", "vc_hit_rate", "mc_hit_rate",
            "sb_hit_rate", "ul2_total_accesses"}

\* the columns of the combined table whose text the scripts are not meant to touch
KeptTextCols == {"config", "benchmark", "mode"}

\* C16 as stated: one row per kept row of the combined table, in order, and the
\* text of its columns as the combined table has it.
C16_RowsAndColumnsUnchanged ==
    norm_done =>
        LET kept == KeptSummary(summary)
        IN  /\ Len(norm) = Len(kept)
            /\ \A i \in 1..Len(norm) :
                  /\ norm[i].source_csv = kept[i].source_csv
                  /\ \A c \in KeptTextCols : norm[i][c] = ReadCell(kept[i][c])

\* what main() makes of the cell v of column c before the join
Prepared(c, v) ==
    IF c = "mode" THEN Lower(Strip(StrOf(ReadCell(v))))
    ELSE IF c \in NumCols THEN to_float(ReadCell(v))
    ELSE IF c \in TextCols THEN ReadCell(v)
    ELSE v

JoinKeepsRows(t, table) ==
    LET kept == KeptSummary(table)
        base == BaseTable(t)
    IN  /\ Len(t) = Len(kept)
        /\ \A i \in 1..Len(t) : \A c \in DOMAIN kept[i] : t[i][c] = Prepared(c, kept[i][c])
        /\ \A a, b \in base :
              a.benchmark = b.benchmark /\ a.dl1_cfg = b.dl1_cfg /\ a.ul2_cfg = b.ul2_cfg
              => a = b

\* C16, amended: the normalized table has one row per kept row of the combined
\* table, in order; the join changes no column it did not add, so each original
\* column holds what main() prepared (the mode trimmed and lower-cased, the numeric
\* columns converted, the rest as read); the baseline aggregate has one record per
\* key, keys with undefined components included.
C16_JoinKeepsRows ==
    /\ norm_done => JoinKeepsRows(norm, summary)
    /\ plot_done => JoinKeepsRows(plot_norm, summary)

\* two baseline rows with different miss rates share a key, and the table has
\* exactly these two rows
C16_Witness ==
    /\ norm_done
    /\ Len(summary) = 2
    /\ Len(norm) = 2
    /\ IsBaselineRow(norm[1]) /\ IsBaselineRow(norm[2])
    /\ SameKey(norm[1], norm[2])
    /\ IsNum(norm[1].dl1_miss_rate) /\ IsNum(norm[2].dl1_miss_rate)
    /\ norm[1].dl1_miss_rate # norm[2].dl1_miss_rate

====
